---- MODULE Spec2Model ----
(***************************************************************************)
(* Model of the contract deployment command (SetContract.run) and of its   *)
(* helpers: the artifact resolver (download, getDeployableFilesFromDir),   *)
(* the schema differ (extractStruct, compareTables), the risk assessor     *)
(* (checkDataExists) and the error reporter (parseDetailsError).           *)
(*                                                                         *)
(* Text that the code inspects character by character (file names, error   *)
(* messages) is a sequence of one-character strings.                       *)
(***************************************************************************)
EXTENDS Integers, Sequences, FiniteSets, TLC

VARIABLES
    pc,             \* position of run(): a label of the next statement
    contractConfig, \* readContractEnvFile(): [NETWORK, ACCOUNT, SOURCE], "" when absent
    flags,          \* [clear, abiOnly, wasmOnly, disableInline]
    source,         \* args.source
    disk,           \* directory |-> [exists, files]; a file is [name, content]
    dir,            \* getDeployableFilesFromDir: its parameter dir
    tmpFolder,      \* getDeployableFilesFromDir: tmpFolder ("" when none was made)
    fetch,          \* per extension: the state of its download() promise chain
    resolved,       \* what getDeployableFilesFromDir returned or threw (<<>> before)
    wasm,           \* run: the bytecode payload
    abi,            \* run: the serialized schema payload (<<>> is the empty string)
    abiFields,      \* run: the candidate schema (<<>> before it is read)
    existingABI,    \* run: get_abi's answer, <<>> or <<schema>>
    tablesToCheck,  \* run: compareTables' result
    probe,          \* checkDataExists: [category, tables, data, returned] of the last call
    warning,        \* run: the warning text, one entry per appended paragraph
    confirmed,      \* run: confirmed
    canDeploy,      \* run: canDeploy
    folderToCleanup,\* run: folderToCleanup
    history,        \* the operations issued so far, in order: [op, arg]
    log,            \* what parseDetailsError printed: [text, hint]
    outcome         \* "" while running, "ok" on return, else the error thrown out of run

vars == <<pc, contractConfig, flags, source, disk, dir, tmpFolder, fetch, resolved,
          wasm, abi, abiFields, existingABI, tablesToCheck, probe, warning,
          confirmed, canDeploy, folderToCleanup, history, log, outcome>>

(***************************************************************************)
(* Bounds of the model.                                                    *)
(***************************************************************************)
\* Longest directory listing handed to the resolver.
MaxFiles == 3
\* Longest table list of a generated schema.
MaxTables == 2
\* Longest record list of a generated schema.
MaxStructs == 2
MaxFragments == 2

(***************************************************************************)
(* Text helpers.                                                           *)
(***************************************************************************)
UpperCase == <<"A", "B", "C", "D", "E", "F", "G", "H", "I", "J", "K", "L", "M",
               "N", "O", "P", "Q", "R", "S", "T", "U", "V", "W", "X", "Y", "Z">>
LowerCase == <<"a", "b", "c", "d", "e", "f", "g", "h", "i", "j", "k", "l", "m",
               "n", "o", "p", "q", "r", "s", "t", "u", "v", "w", "x", "y", "z">>

\* The i flag of a regular expression, String.prototype.toLowerCase: one character.
toLowerCase(c) ==
    IF \E i \in DOMAIN UpperCase : UpperCase[i] = c
    THEN LowerCase[CHOOSE i \in DOMAIN UpperCase : UpperCase[i] = c]
    ELSE c

\* Array.prototype.filter is SelectSeq.

\* path.join(dir, name): the directory and the entry.
join(d, name) == <<d, name>>

(***************************************************************************)
(* Artifact resolver: the directory scan of getDeployableFilesFromDir.     *)
(***************************************************************************)
\* filePath.match(/.*\.(ext)$/gi): the name ends with "." ext, whatever the case.
matchExt(filePath, ext) ==
    LET suffix == <<".">> \o ext
        off == Len(filePath) - Len(suffix)
    IN  /\ off >= 0
        /\ \A i \in 1..Len(suffix) : toLowerCase(filePath[off + i]) = suffix[i]

WASM == <<"w", "a", "s", "m">>
ABI == <<"a", "b", "i">>

\* The scan without the check for several matches: the first match of each is taken.
getDeployableFilesFirstMatch(d, dirCont, tmp) ==
    LET wasms == SelectSeq(dirCont, LAMBDA f : matchExt(f, WASM))
        abis == SelectSeq(dirCont, LAMBDA f : matchExt(f, ABI))
    IN  IF Len(wasms) = 0
        THEN [kind |-> "error", error |-> "ArtifactNotFound", what |-> "wasm"]
        ELSE IF Len(abis) = 0
        THEN [kind |-> "error", error |-> "ArtifactNotFound", what |-> "abi"]
        ELSE [kind |-> "ok", wasmPath |-> join(d, wasms[1]),
              abiPath |-> join(d, abis[1]), tmpFolder |-> tmp]

\* The scan with the check for several matches made first.
getDeployableFilesAmbiguousFirst(d, dirCont, tmp) ==
    LET wasms == SelectSeq(dirCont, LAMBDA f : matchExt(f, WASM))
        abis == SelectSeq(dirCont, LAMBDA f : matchExt(f, ABI))
    IN  IF Len(wasms) > 1 \/ Len(abis) > 1
        THEN [kind |-> "error", error |-> "AmbiguousArtifacts", what |-> "both"]
        ELSE IF Len(wasms) = 0
        THEN [kind |-> "error", error |-> "ArtifactNotFound", what |-> "wasm"]
        ELSE IF Len(abis) = 0
        THEN [kind |-> "error", error |-> "ArtifactNotFound", what |-> "abi"]
        ELSE [kind |-> "ok", wasmPath |-> join(d, wasms[1]),
              abiPath |-> join(d, abis[1]), tmpFolder |-> tmp]

\* Lines 94-116: list dir, filter by extension, validate, return the paths.
\* "Cannot find a .wasm/.abi file" is ArtifactNotFound, "must contain only 1 WASM
\* and 1 ABI" is AmbiguousArtifacts.
getDeployableFilesFromDir(d, dirCont, tmp) ==
    LET wasms == SelectSeq(dirCont, LAMBDA f : matchExt(f, WASM))
        abis == SelectSeq(dirCont, LAMBDA f : matchExt(f, ABI))
    IN  IF Len(wasms) = 0
        THEN [kind |-> "error", error |-> "ArtifactNotFound", what |-> "wasm"]
        ELSE IF Len(abis) = 0
        THEN [kind |-> "error", error |-> "ArtifactNotFound", what |-> "abi"]
        ELSE IF Len(wasms) > 1 \/ Len(abis) > 1
        THEN [kind |-> "error", error |-> "AmbiguousArtifacts", what |-> "both"]
        ELSE [kind |-> "ok", wasmPath |-> join(d, wasms[1]),
              abiPath |-> join(d, abis[1]), tmpFolder |-> tmp]

(***************************************************************************)
(* Schema differ.                                                          *)
(***************************************************************************)
\* abiStructs.find(item => item.name === structName): <<>> is undefined.
extractStruct(abiStructs, structName) ==
    LET hits == SelectSeq(abiStructs, LAMBDA item : item.name = structName)
    IN  IF hits = <<>> THEN <<>> ELSE <<Head(hits)>>

\* An equality under which an absent record equals nothing, itself included.
isEqualDefinedOnly(a, b) == a # <<>> /\ b # <<>> /\ a = b

\* lodash.isequal on the two lookups: deep equality, undefined equal to undefined.
isEqual(a, b) == a = b

\* The test findIndex(...) <= 0: a table found first in the list counts as absent.
notInTablesOrFirst(tables, name) == \A i \in DOMAIN tables : i = 1 \/ tables[i].name # name

\* newTables.findIndex(item => item.name === name) < 0
notInTables(tables, name) == \A i \in DOMAIN tables : tables[i].name # name

\* existingTables.reduce(...): the tables of the existing schema in order, each
\* pushed to removed, to updated, or to neither.
RECURSIVE reduceTables(_, _, _, _)
reduceTables(tables, existing, new, accum) ==
    IF tables = <<>> THEN accum
    ELSE LET table == Head(tables)
             next ==
                IF notInTables(new.tables, table.name)
                THEN [accum EXCEPT !.removed = Append(@, table.name)]
                ELSE LET existingStruct == extractStruct(existing.structs, table.type)
                         newStruct == extractStruct(new.structs, table.type)
                     IN  IF ~isEqual(existingStruct, newStruct)
                         THEN [accum EXCEPT !.updated = Append(@, table.name)]
                         ELSE accum
         IN  reduceTables(Tail(tables), existing, new, next)

compareTables(existing, new) ==
    reduceTables(existing.tables, existing, new, [removed |-> <<>>, updated |-> <<>>])

(***************************************************************************)
(* Risk assessor: what checkDataExists returns once every probe settled.   *)
(***************************************************************************)
\* The results collected in the order in which the probes completed, as pushes
\* to one shared array would give them.
checkDataExistsCompletionOrder(data) ==
    LET kept == {i \in DOMAIN data : data[i].value # <<>>}
        rank(i) == Cardinality({j \in kept : data[j].order < data[i].order}) + 1
    IN  [k \in 1..Cardinality(kept) |-> data[CHOOSE i \in kept : rank(i) = k].value[1]]

\* A slot of Promise.all's array: value is <<>> for null, <<tableName>> otherwise;
\* order is the slot's place in the order of completion, which Promise.all does
\* not use.
\* data.SelectSeq(item => item !== null)
checkDataExists(data) ==
    LET kept == SelectSeq(data, LAMBDA item : item.value # <<>>)
    IN  [i \in 1..Len(kept) |-> kept[i].value[1]]

(***************************************************************************)
(* Error reporter.                                                         *)
(***************************************************************************)
\* Each pattern is the list of the alternatives of its regular expression; all
\* carry the i flag.
ERROR_HINTS == <<
    [pattern |-> <<<<"i", "n", "s", "u", "f", "f", "i", "c", "i", "e", "n", "t", " ", "r", "a", "m">>>>,
     hint |-> "Try buying more RAM: proton ram:buy <account> <account> <bytes>"],
    [pattern |-> <<<<"t", "x", "_", "c", "p", "u", "_", "u", "s", "a", "g", "e", "_", "e", "x", "c", "e", "e", "d", "e", "d">>,
                  <<"b", "i", "l", "l", "e", "d", " ", "C", "P", "U", " ", "t", "i", "m", "e">>>>,
     hint |-> "CPU limit exceeded. Wait a few minutes for your CPU to reset, or stake more XPR for resources."],
    [pattern |-> <<<<"t", "x", "_", "n", "e", "t", "_", "u", "s", "a", "g", "e", "_", "e", "x", "c", "e", "e", "d", "e", "d">>>>,
     hint |-> "NET limit exceeded. Wait a few minutes for your NET to reset, or stake more XPR for resources."],
    [pattern |-> <<<<"u", "n", "k", "n", "o", "w", "n", " ", "k", "e", "y">>>>,
     hint |-> "The signing key is not available. Make sure you have added the correct private key: proton key:add"],
    [pattern |-> <<<<"o", "v", "e", "r", "d", "r", "a", "w", "n", " ", "b", "a", "l", "a", "n", "c", "e">>,
                  <<"i", "n", "s", "u", "f", "f", "i", "c", "i", "e", "n", "t", " ", "f", "u", "n", "d", "s">>>>,
     hint |-> "Insufficient token balance for this transaction."],
    [pattern |-> <<<<"m", "i", "s", "s", "i", "n", "g", " ", "a", "u", "t", "h", "o", "r", "i", "t", "y">>,
                  <<"m", "i", "s", "s", "i", "n", "g", " ", "r", "e", "q", "u", "i", "r", "e", "d", " ", "a", "u", "t", "h", "o", "r", "i", "t", "y">>>>,
     hint |-> "You don't have permission to perform this action. Check the account and permission."],
    [pattern |-> <<<<"d", "e", "a", "d", "l", "i", "n", "e", " ", "e", "x", "c", "e", "e", "d", "e", "d">>>>,
     hint |-> "Transaction timed out. The network may be congested, try again."],
    [pattern |-> <<<<"d", "u", "p", "l", "i", "c", "a", "t", "e", " ", "t", "r", "a", "n", "s", "a", "c", "t", "i", "o", "n">>>>,
     hint |-> "This exact transaction was already submitted. Wait a moment before retrying."],
    [pattern |-> <<<<"a", "c", "c", "o", "u", "n", "t", " ", "d", "o", "e", "s", " ", "n", "o", "t", " ", "e", "x", "i", "s", "t">>>>,
     hint |-> "The specified account doesn't exist on this network."]
    >>

\* The text occurs in the message at some offset, case ignored.
includesIgnoreCase(message, text) ==
    \E off \in 0..(Len(message) - Len(text)) :
        \A i \in 1..Len(text) : toLowerCase(message[off + i]) = toLowerCase(text[i])

\* pattern.test(errorMessage)
test(pattern, errorMessage) ==
    \E k \in DOMAIN pattern : includesIgnoreCase(errorMessage, pattern[k])

\* The loop that keeps looking after a match and answers with the last one.
getHintForErrorLastMatch(errorMessage) ==
    LET hits == SelectSeq(ERROR_HINTS, LAMBDA entry : test(entry.pattern, errorMessage))
    IN  IF hits = <<>> THEN <<>> ELSE <<hits[Len(hits)].hint>>

\* The hint of the first entry that matches, <<>> for null.
getHintForError(errorMessage) ==
    LET hits == SelectSeq(ERROR_HINTS, LAMBDA entry : test(entry.pattern, errorMessage))
    IN  IF hits = <<>> THEN <<>> ELSE <<Head(hits).hint>>

\* An error value e: its typeof, e.details (the messages) and e.message.
\* What parseDetailsError prints for it.
parseDetailsError(e) ==
    LET error == IF e.type = "object" /\ e.details # <<>> THEN e.details[1] ELSE <<>>
        errorMessage == IF error # <<>> THEN error ELSE e.message
    IN  IF errorMessage # <<>> \/ e.type = "object"
        THEN [printed |-> IF errorMessage # <<>> THEN "message" ELSE "JSON.stringify",
              message |-> errorMessage,
              hint |-> getHintForError(errorMessage)]
        ELSE [printed |-> "styledJSON", message |-> <<>>, hint |-> <<>>]

(***************************************************************************)
(* The inputs of a run.                                                    *)
(***************************************************************************)
\* network.chain
Chain == "proton"
Networks == {"", "proton", "proton-test"}
Accounts == {"", "acct"}

LocalSource == "./contracts/c"
GithubSource == "https://github.com/o/r/tree/main/c"
\* mkdtemp(join(tmpdir(), 'foo-'))
TmpDir == "/tmp/foo-XXXXXX"
Sources == {LocalSource, GithubSource}
Dirs == {LocalSource, TmpDir}

\* /^https:\/\/github\.com/.test(dir)
isGithub(d) == d = GithubSource

\* dirArr[dirArr.length - 1] of GithubSource
contractName == <<"c">>
Exts == {"wasm", "abi"}
extText(ext) == IF ext = "wasm" THEN WASM ELSE ABI
\* `${contractName}.${ext}`
downloadName(ext) == contractName \o <<".">> \o extText(ext)

\* File names of a directory listing.
FileNames == {
    <<"c", ".", "w", "a", "s", "m">>,
    <<"c", ".", "a", "b", "i">>,
    <<"d", ".", "W", "A", "S", "M">>,
    <<"d", ".", "a", "b", "i">>,
    <<"r", ".", "m", "d">>,
    <<"w", "a", "s", "m">>,
    <<"c", ".", "a", "b", "i", ".", "z">>}

\* Listings without a repeated name, of at most n entries.
Listings(n) ==
    {l \in UNION {[1..k -> FileNames] : k \in 0..n} :
        \A i, j \in DOMAIN l : i # j => l[i] # l[j]}

file(name) == [name |-> name, content |-> "complete"]
filesOf(listing) == [i \in DOMAIN listing |-> file(listing[i])]
namesOf(files) == [i \in DOMAIN files |-> files[i].name]

\* The local directories a run is tried on.
RunListings == {
    << <<"c", ".", "w", "a", "s", "m">>, <<"c", ".", "a", "b", "i">> >>,
    << <<"c", ".", "w", "a", "s", "m">>, <<"r", ".", "m", "d">> >>,
    << <<"c", ".", "w", "a", "s", "m">>, <<"d", ".", "W", "A", "S", "M">>,
       <<"c", ".", "a", "b", "i">> >>}

\* Schemas: tables are [name, type], structs are [name, fields].
TableNames == {"T1", "T2"}
TypeNames == {"R1", "R2"}
FieldLists == {<<"a">>, <<"a", "b">>}
Tables == [name : TableNames, type : TypeNames]
Structs == [name : TypeNames, fields : FieldLists]
SeqsUpTo(S, n) == UNION {[1..k -> S] : k \in 0..n}
Schemas == [tables : SeqsUpTo(Tables, MaxTables), structs : SeqsUpTo(Structs, MaxStructs)]

tbl(n, ty) == [name |-> n, type |-> ty]
rec(n, f) == [name |-> n, fields |-> f]
\* The schema deployed on the account in the runs.
SchemaLive ==
    [tables |-> <<tbl("T1", "R1"), tbl("T2", "R2")>>,
     structs |-> <<rec("R1", <<"a", "b">>), rec("R2", <<"a">>)>>]
\* Candidates: unchanged, T1 dropped, a field of R1 dropped, T1 dropped and R2 widened,
\* T1 pointed at another record.
SchemaDropT1 ==
    [tables |-> <<tbl("T2", "R2")>>, structs |-> <<rec("R2", <<"a">>)>>]
SchemaNarrowR1 ==
    [tables |-> <<tbl("T1", "R1"), tbl("T2", "R2")>>,
     structs |-> <<rec("R1", <<"a">>), rec("R2", <<"a">>)>>]
SchemaDropAndWiden ==
    [tables |-> <<tbl("T2", "R2")>>, structs |-> <<rec("R2", <<"a", "b">>)>>]
SchemaRetarget ==
    [tables |-> <<tbl("T1", "R2"), tbl("T2", "R2")>>,
     structs |-> <<rec("R1", <<"a", "b">>), rec("R2", <<"a">>)>>]
ExistingSchemas == {SchemaLive}
CandidateSchemas == {SchemaLive, SchemaDropT1, SchemaNarrowR1, SchemaDropAndWiden}
DiffCandidates == CandidateSchemas \cup {SchemaRetarget}

\* A confirm prompt's answer; left unanswered it yields its default, false.
Answers == {"yes", "no", "unanswered"}
promptValue(answer) == answer = "yes"

\* What a table probe (get_table_by_scope) may do.
ProbeOutcomes == {"rows", "empty", "error"}

\* What network.transact may reject with.
MsgInsufficientRam == <<"I", "n", "s", "u", "f", "f", "i", "c", "i", "e", "n", "t", " ", "R", "A", "M">>
MsgAssert == <<"a", "s", "s", "e", "r", "t", "i", "o", "n", " ", "f", "a", "i", "l", "u", "r", "e">>
MsgKeyAndAuthority == <<"U", "n", "k", "n", "o", "w", "n", " ", "k", "e", "y", ":", " ", "m", "i", "s", "s", "i", "n", "g", " ", "a", "u", "t", "h", "o", "r", "i", "t", "y">>
ErrorSamples == {
    [type |-> "object", details |-> <<MsgInsufficientRam>>, message |-> MsgAssert],
    [type |-> "object", details |-> <<>>, message |-> MsgKeyAndAuthority],
    [type |-> "object", details |-> <<>>, message |-> <<>>],
    [type |-> "string", details |-> <<>>, message |-> <<>>]}

\* Pieces of the messages a rejected transaction carries.
FragInsufficient == <<"I", "n", "s", "u", "f", "f", "i", "c", "i", "e", "n", "t">>
FragRam == <<" ", "R", "A", "M">>
FragFunds == <<" ", "f", "u", "n", "d", "s">>
FragUnknownKey == <<"U", "N", "K", "N", "O", "W", "N", " ", "K", "E", "Y">>
FragMissing == <<"m", "i", "s", "s", "i", "n", "g", " ">>
FragRequired == <<"r", "e", "q", "u", "i", "r", "e", "d", " ">>
FragAuthority == <<"a", "u", "t", "h", "o", "r", "i", "t", "y">>
FragBilled == <<"b", "i", "l", "l", "e", "d", " ", "c", "p", "u", " ", "t", "i", "m", "e">>
FragNetUsage == <<"t", "x", "_", "n", "e", "t", "_", "u", "s", "a", "g", "e", "_", "e", "x", "c", "e", "e", "d", "e", "d">>
FragNoAccount == <<"A", "c", "c", "o", "u", "n", "t", " ", "d", "o", "e", "s", " ", "n", "o", "t", " ", "e", "x", "i", "s", "t">>
FragColon == <<":", " ">>
FragAssert == <<"a", "s", "s", "e", "r", "t", "i", "o", "n", " ", "f", "a", "i", "l", "u", "r", "e">>
Fragments == {FragInsufficient,
              FragRam,
              FragFunds,
              FragUnknownKey,
              FragMissing,
              FragRequired,
              FragAuthority,
              FragBilled,
              FragNetUsage,
              FragNoAccount,
              FragColon,
              FragAssert}

\* errorMessage: every run of at most MaxFragments pieces.
RECURSIVE concat(_)
concat(pieces) == IF pieces = <<>> THEN <<>> ELSE Head(pieces) \o concat(Tail(pieces))
Messages == {concat(pieces) : pieces \in SeqsUpTo(Fragments, MaxFragments)}

(***************************************************************************)
(* State.                                                                  *)
(***************************************************************************)
inputs == <<contractConfig, flags, source>>

noDir == [exists |-> FALSE, files |-> <<>>]
noProbe == [category |-> "", tables |-> <<>>, data |-> <<>>, returned |-> <<>>]
noTables == [removed |-> <<>>, updated |-> <<>>]

\* {...argsInput, ...presetValues}.account
account == IF contractConfig.ACCOUNT # "" THEN contractConfig.ACCOUNT ELSE "acct"

event(op, arg) == [op |-> op, arg |-> arg]

\* What every run starts with, whatever its inputs.
InitLocals ==
    /\ dir = ""
    /\ tmpFolder = ""
    /\ fetch = [e \in Exts |-> "idle"]
    /\ resolved = <<>>
    /\ wasm = ""
    /\ abi = <<>>
    /\ abiFields = <<>>
    /\ existingABI = <<>>
    /\ tablesToCheck = noTables
    /\ probe = noProbe
    /\ warning = <<>>
    /\ confirmed = FALSE
    /\ canDeploy = TRUE
    /\ folderToCleanup = ""
    /\ history = <<>>
    /\ log = <<>>
    /\ outcome = ""

Init ==
    /\ pc = "start"
    /\ source \in Sources
    /\ contractConfig \in [NETWORK : Networks, ACCOUNT : Accounts, SOURCE : {"", source}]
    /\ flags \in [clear : BOOLEAN, abiOnly : BOOLEAN, wasmOnly : BOOLEAN,
                  disableInline : BOOLEAN]
    /\ \E listing \in RunListings :
          disk = [d \in Dirs |->
                    IF d = LocalSource /\ source = LocalSource
                    THEN [exists |-> TRUE, files |-> filesOf(listing)]
                    ELSE noDir]
    /\ InitLocals

\* An error leaves run(): nothing after the throwing statement is executed.
throw(error) ==
    /\ pc' = "failed"
    /\ outcome' = error

(***************************************************************************)
(* run(): configuration and the first prompt.                              *)
(***************************************************************************)
\* The network check that lets a mismatch through.
StartAnyNetwork ==
    /\ pc = "start"
    /\ confirmed' = (contractConfig.ACCOUNT # "")
    /\ pc' = "confirm"
    /\ UNCHANGED <<inputs, disk, dir, tmpFolder, fetch, resolved, wasm, abi, abiFields,
                   existingABI, tablesToCheck, probe, warning, canDeploy,
                   folderToCleanup, history, log, outcome>>

\* Lines 202-236.
Start ==
    /\ pc = "start"
    /\ confirmed' = (contractConfig.ACCOUNT # "")
    /\ IF contractConfig.NETWORK # "" /\ Chain # contractConfig.NETWORK
       THEN throw("NetworkMismatch")
       ELSE pc' = "confirm" /\ UNCHANGED outcome
    /\ UNCHANGED <<inputs, disk, dir, tmpFolder, fetch, resolved, wasm, abi, abiFields,
                   existingABI, tablesToCheck, probe, warning, canDeploy,
                   folderToCleanup, history, log>>

\* Lines 248-259.
Confirm ==
    /\ pc = "confirm"
    /\ IF ~confirmed
       THEN \E answer \in Answers :
              /\ history' = Append(history, event("prompt_initial", answer))
              /\ confirmed' = promptValue(answer)
       ELSE UNCHANGED <<history, confirmed>>
    /\ pc' = "branch"
    /\ UNCHANGED <<inputs, disk, dir, tmpFolder, fetch, resolved, wasm, abi, abiFields,
                   existingABI, tablesToCheck, probe, warning, canDeploy,
                   folderToCleanup, log, outcome>>

\* The branch that looks for the files in clear mode too.
BranchResolveInClear ==
    /\ pc = "branch"
    /\ IF ~confirmed
       THEN pc' = "done" /\ outcome' = "ok"
       ELSE pc' = "resolve" /\ UNCHANGED outcome
    /\ UNCHANGED <<inputs, disk, dir, tmpFolder, fetch, resolved, wasm, abi, abiFields,
                   existingABI, tablesToCheck, probe, warning, confirmed, canDeploy,
                   folderToCleanup, history, log>>

\* The branch that goes on without looking at confirmed.
BranchUnconfirmed ==
    /\ pc = "branch"
    /\ pc' = IF flags.clear THEN "gate" ELSE "resolve"
    /\ UNCHANGED <<inputs, disk, dir, tmpFolder, fetch, resolved, wasm, abi, abiFields,
                   existingABI, tablesToCheck, probe, warning, confirmed, canDeploy,
                   folderToCleanup, history, log, outcome>>

\* Lines 261-263 (and 389-390 when not confirmed).
Branch ==
    /\ pc = "branch"
    /\ IF ~confirmed
       THEN pc' = "done" /\ outcome' = "ok"
       ELSE pc' = (IF flags.clear THEN "gate" ELSE "resolve") /\ UNCHANGED outcome
    /\ UNCHANGED <<inputs, disk, dir, tmpFolder, fetch, resolved, wasm, abi, abiFields,
                   existingABI, tablesToCheck, probe, warning, confirmed, canDeploy,
                   folderToCleanup, history, log>>

(***************************************************************************)
(* getDeployableFilesFromDir and download.                                 *)
(***************************************************************************)
\* Lines 265, 55-58.
ResolveStart ==
    /\ pc = "resolve"
    /\ history' = Append(history, event("resolve", source))
    /\ dir' = source
    /\ pc' = IF isGithub(source) THEN "mkdtemp" ELSE "scan"
    /\ UNCHANGED <<inputs, disk, tmpFolder, fetch, resolved, wasm, abi, abiFields,
                   existingABI, tablesToCheck, probe, warning, confirmed, canDeploy,
                   folderToCleanup, log, outcome>>

\* Lines 62-72.
Mkdtemp ==
    /\ pc = "mkdtemp"
    /\ disk' = [disk EXCEPT ![TmpDir] = [exists |-> TRUE, files |-> <<>>]]
    /\ tmpFolder' = TmpDir
    /\ history' = Append(history, event("mkdtemp", TmpDir))
    /\ pc' = "download"
    /\ UNCHANGED <<inputs, dir, fetch, resolved, wasm, abi, abiFields,
                   existingABI, tablesToCheck, probe, warning, confirmed, canDeploy,
                   folderToCleanup, log, outcome>>

\* Lines 77-79: map() calls download() for both extensions before awaiting.
StartDownloads ==
    /\ pc = "download"
    /\ fetch' = [e \in Exts |-> "pending"]
    /\ history' = history \o <<event("fetch", "wasm"), event("fetch", "abi")>>
    /\ pc' = "downloading"
    /\ UNCHANGED <<inputs, disk, dir, tmpFolder, resolved, wasm, abi, abiFields,
                   existingABI, tablesToCheck, probe, warning, confirmed, canDeploy,
                   folderToCleanup, log, outcome>>

fetchFrame ==
    UNCHANGED <<inputs, pc, dir, tmpFolder, resolved, wasm, abi, abiFields,
                existingABI, tablesToCheck, probe, warning, confirmed, canDeploy,
                folderToCleanup, history, log, outcome>>

withFile(files, name, content) ==
    Append(SelectSeq(files, LAMBDA f : f.name # name), [name |-> name, content |-> content])
withoutFile(files, name) == SelectSeq(files, LAMBDA f : f.name # name)

\* Lines 29-44: the response arrives; on 200 the file is created and piped into,
\* otherwise the promise rejects (and .catch gives false).
FetchResponse(ext) ==
    /\ pc = "downloading"
    /\ fetch[ext] = "pending"
    /\ \E statusCode \in {200, 404} :
          IF statusCode = 200
          THEN /\ fetch' = [fetch EXCEPT ![ext] = "streaming"]
               /\ disk' = [disk EXCEPT ![tmpFolder].files =
                              withFile(@, downloadName(ext), "partial")]
          ELSE /\ fetch' = [fetch EXCEPT ![ext] = "false"]
               /\ UNCHANGED disk
    /\ fetchFrame

\* Lines 45-47: the request fails before a response.
FetchRequestError(ext) ==
    /\ pc = "downloading"
    /\ fetch[ext] = "pending"
    /\ fetch' = [fetch EXCEPT ![ext] = "false"]
    /\ UNCHANGED disk
    /\ fetchFrame

\* Lines 48-51: the socket stays idle for TIMEOUT, before the response or while the
\* body is piped; the request is destroyed and the promise rejects. What was
\* written to dest stays.
FetchTimeout(ext) ==
    /\ pc = "downloading"
    /\ fetch[ext] \in {"pending", "streaming"}
    /\ fetch' = [fetch EXCEPT ![ext] = "false"]
    /\ UNCHANGED disk
    /\ fetchFrame

\* Lines 34-37: the write stream finishes.
FetchFinish(ext) ==
    /\ pc = "downloading"
    /\ fetch[ext] = "streaming"
    /\ fetch' = [fetch EXCEPT ![ext] = "true"]
    /\ disk' = [disk EXCEPT ![tmpFolder].files = withFile(@, downloadName(ext), "complete")]
    /\ fetchFrame

\* Lines 38-41: the write stream fails; dest is unlinked, then the promise rejects.
FetchWriteError(ext) ==
    /\ pc = "downloading"
    /\ fetch[ext] = "streaming"
    /\ fetch' = [fetch EXCEPT ![ext] = "false"]
    /\ disk' = [disk EXCEPT ![tmpFolder].files = withoutFile(@, downloadName(ext))]
    /\ fetchFrame

\* The join that goes on as soon as one download has settled (Promise.race).
JoinFirstSettled ==
    /\ pc = "downloading"
    /\ \E e \in Exts : fetch[e] \in {"true", "false"}
    /\ dir' = tmpFolder
    /\ pc' = "scan"
    /\ UNCHANGED <<inputs, disk, tmpFolder, fetch, resolved, wasm, abi, abiFields,
                   existingABI, tablesToCheck, probe, warning, confirmed, canDeploy,
                   folderToCleanup, history, log, outcome>>

\* Lines 77, 85-92: Promise.all settles once both have.
Join ==
    /\ pc = "downloading"
    /\ \A e \in Exts : fetch[e] \in {"true", "false"}
    /\ dir' = tmpFolder
    /\ pc' = "scan"
    /\ UNCHANGED <<inputs, disk, tmpFolder, fetch, resolved, wasm, abi, abiFields,
                   existingABI, tablesToCheck, probe, warning, confirmed, canDeploy,
                   folderToCleanup, history, log, outcome>>

\* Lines 94-116.
Scan ==
    /\ pc = "scan"
    /\ LET result == getDeployableFilesFromDir(dir, namesOf(disk[dir].files), tmpFolder)
       IN  /\ resolved' = <<result>>
           /\ IF result.kind = "error"
              THEN throw(result.error)
              ELSE pc' = "read" /\ UNCHANGED outcome
    /\ UNCHANGED <<inputs, disk, dir, tmpFolder, fetch, wasm, abi, abiFields,
                   existingABI, tablesToCheck, probe, warning, confirmed, canDeploy,
                   folderToCleanup, history, log>>

(***************************************************************************)
(* run(): reading the artifacts, the diff and the risk check.              *)
(***************************************************************************)
\* The file a resolved path names.
fileAt(path) == Head(SelectSeq(disk[path[1]].files, LAMBDA f : f.name = path[2]))

\* Lines 269-280: readFileSync(wasmPath), JSON.parse(readFileSync(abiPath)). A file
\* cut short is no JSON; a whole file holds a candidate schema or is no JSON either.
ReadFiles ==
    /\ pc = "read"
    /\ wasm' = fileAt(resolved[1].wasmPath).content
    /\ \E parsed \in BOOLEAN, schema \in CandidateSchemas :
          IF ~parsed \/ fileAt(resolved[1].abiPath).content # "complete"
          THEN throw("SyntaxError") /\ UNCHANGED abiFields
          ELSE abiFields' = <<schema>> /\ pc' = "get_abi" /\ UNCHANGED outcome
    /\ UNCHANGED <<inputs, disk, dir, tmpFolder, fetch, resolved, abi,
                   existingABI, tablesToCheck, probe, warning, confirmed, canDeploy,
                   folderToCleanup, history, log>>

\* Lines 281-284: get_abi rejects, or answers without or with an abi.
GetAbi ==
    /\ pc = "get_abi"
    /\ history' = Append(history, event("get_abi", account))
    /\ \E answer \in {"rejects", "no abi", "abi"}, schema \in ExistingSchemas :
          IF answer = "rejects"
          THEN throw("GetAbiFailed") /\ UNCHANGED existingABI
          ELSE /\ existingABI' = IF answer = "abi" THEN <<schema>> ELSE <<>>
               /\ pc' = IF answer = "abi" THEN "compare" ELSE "warn"
               /\ UNCHANGED outcome
    /\ UNCHANGED <<inputs, disk, dir, tmpFolder, fetch, resolved, wasm, abi, abiFields,
                   tablesToCheck, probe, warning, confirmed, canDeploy,
                   folderToCleanup, log>>

\* Line 285.
Compare ==
    /\ pc = "compare"
    /\ tablesToCheck' = compareTables(existingABI[1], abiFields[1])
    /\ history' = Append(history, event("compare", ""))
    /\ pc' = "check_removed"
    /\ UNCHANGED <<inputs, disk, dir, tmpFolder, fetch, resolved, wasm, abi, abiFields,
                   existingABI, probe, warning, confirmed, canDeploy,
                   folderToCleanup, log, outcome>>

\* Lines 143-151: tables.map starts one get_table_by_scope per name, in order.
startProbes(category, tables) ==
    /\ probe' = [category |-> category, tables |-> tables,
                 data |-> [i \in DOMAIN tables |->
                             [done |-> FALSE, order |-> 0, result |-> "", value |-> <<>>]],
                 returned |-> <<>>]
    /\ history' = history \o [i \in DOMAIN tables |-> event("probe", tables[i])]
    /\ pc' = "probing"

\* The check that probes every deployed table, whatever the differ returned.
CheckRemovedAllTables ==
    /\ pc = "check_removed"
    /\ startProbes("removed", [i \in DOMAIN existingABI[1].tables |->
                                  existingABI[1].tables[i].name])
    /\ UNCHANGED <<inputs, disk, dir, tmpFolder, fetch, resolved, wasm, abi, abiFields,
                   existingABI, tablesToCheck, warning, confirmed, canDeploy,
                   folderToCleanup, log, outcome>>

\* Lines 287-288.
CheckRemoved ==
    /\ pc = "check_removed"
    /\ IF Len(tablesToCheck.removed) > 0
       THEN startProbes("removed", tablesToCheck.removed)
       ELSE pc' = "check_updated" /\ UNCHANGED <<probe, history>>
    /\ UNCHANGED <<inputs, disk, dir, tmpFolder, fetch, resolved, wasm, abi, abiFields,
                   existingABI, tablesToCheck, warning, confirmed, canDeploy,
                   folderToCleanup, log, outcome>>

\* Lines 294-295.
CheckUpdated ==
    /\ pc = "check_updated"
    /\ IF Len(tablesToCheck.updated) > 0
       THEN startProbes("updated", tablesToCheck.updated)
       ELSE pc' = "warn" /\ UNCHANGED <<probe, history>>
    /\ UNCHANGED <<inputs, disk, dir, tmpFolder, fetch, resolved, wasm, abi, abiFields,
                   existingABI, tablesToCheck, warning, confirmed, canDeploy,
                   folderToCleanup, log, outcome>>

\* The probe for which an answer without rows counts as data (rows.length >= 0).
ProbeSettleAnyAnswer(i) ==
    /\ pc = "probing"
    /\ ~probe.data[i].done
    /\ \E result \in ProbeOutcomes :
          probe' = [probe EXCEPT !.data[i] =
                      [done |-> TRUE,
                       order |-> Cardinality({j \in DOMAIN probe.data :
                                                 probe.data[j].done}) + 1,
                       result |-> result,
                       value |-> IF result # "error" THEN <<probe.tables[i]>> ELSE <<>>]]
    /\ UNCHANGED <<inputs, pc, disk, dir, tmpFolder, fetch, resolved, wasm, abi, abiFields,
                   existingABI, tablesToCheck, warning, confirmed, canDeploy,
                   folderToCleanup, history, log, outcome>>

\* Lines 145-158: one probe settles; its slot is the table name when rows came
\* back, null when none did or the call rejected.
ProbeSettle(i) ==
    /\ pc = "probing"
    /\ ~probe.data[i].done
    /\ \E result \in ProbeOutcomes :
          probe' = [probe EXCEPT !.data[i] =
                      [done |-> TRUE,
                       order |-> Cardinality({j \in DOMAIN probe.data :
                                                 probe.data[j].done}) + 1,
                       result |-> result,
                       value |-> IF result = "rows" THEN <<probe.tables[i]>> ELSE <<>>]]
    /\ UNCHANGED <<inputs, pc, disk, dir, tmpFolder, fetch, resolved, wasm, abi, abiFields,
                   existingABI, tablesToCheck, warning, confirmed, canDeploy,
                   folderToCleanup, history, log, outcome>>

\* Lines 143, 160 and 289-291 or 296-298: Promise.all settles, the nulls are
\* filtered out, and a non-empty report adds its paragraph to the warning.
ProbeJoin ==
    /\ pc = "probing"
    /\ \A i \in DOMAIN probe.data : probe.data[i].done
    /\ LET report == checkDataExists(probe.data)
       IN  warning' = IF Len(report) > 0
                      THEN Append(warning, [category |-> probe.category, tables |-> report])
                      ELSE warning
    /\ pc' = IF probe.category = "removed" THEN "check_updated" ELSE "warn"
    /\ probe' = [probe EXCEPT !.returned = <<checkDataExists(probe.data)>>]
    /\ UNCHANGED <<inputs, disk, dir, tmpFolder, fetch, resolved, wasm, abi, abiFields,
                   existingABI, tablesToCheck, confirmed, canDeploy,
                   folderToCleanup, history, log, outcome>>

\* The risk prompt whose answer is not used.
WarnAnswerIgnored ==
    /\ pc = "warn"
    /\ IF warning # <<>>
       THEN \E answer \in Answers :
              history' = Append(history, event("prompt_risk", answer))
       ELSE UNCHANGED history
    /\ pc' = "serialize"
    /\ UNCHANGED <<inputs, disk, dir, tmpFolder, fetch, resolved, wasm, abi, abiFields,
                   existingABI, tablesToCheck, probe, warning, confirmed, canDeploy,
                   folderToCleanup, log, outcome>>

\* Lines 302-315.
Warn ==
    /\ pc = "warn"
    /\ IF warning # <<>>
       THEN \E answer \in Answers :
              /\ history' = Append(history, event("prompt_risk", answer))
              /\ canDeploy' = promptValue(answer)
       ELSE UNCHANGED <<history, canDeploy>>
    /\ pc' = "serialize"
    /\ UNCHANGED <<inputs, disk, dir, tmpFolder, fetch, resolved, wasm, abi, abiFields,
                   existingABI, tablesToCheck, probe, warning, confirmed,
                   folderToCleanup, log, outcome>>

\* Lines 317-323.
Serialize ==
    /\ pc = "serialize"
    /\ abi' = abiFields
    /\ folderToCleanup' = resolved[1].tmpFolder
    /\ pc' = "gate"
    /\ UNCHANGED <<inputs, disk, dir, tmpFolder, fetch, resolved, wasm, abiFields,
                   existingABI, tablesToCheck, probe, warning, confirmed, canDeploy,
                   history, log, outcome>>

(***************************************************************************)
(* run(): the submissions, the enable step and the cleanup.                *)
(***************************************************************************)
stepFrame ==
    UNCHANGED <<inputs, disk, dir, tmpFolder, fetch, resolved, wasm, abi, abiFields,
                existingABI, tablesToCheck, probe, warning, confirmed, canDeploy,
                folderToCleanup>>

\* The gate that returns from run() at once when the deploy was declined.
GateReturnOnDecline ==
    /\ pc = "gate"
    /\ pc' = IF canDeploy THEN "setcode" ELSE "done"
    /\ outcome' = IF canDeploy THEN outcome ELSE "ok"
    /\ UNCHANGED <<history, log>>
    /\ stepFrame

\* Line 326.
Gate ==
    /\ pc = "gate"
    /\ pc' = IF canDeploy THEN "setcode" ELSE "cleanup"
    /\ UNCHANGED <<history, log, outcome>>
    /\ stepFrame

\* The code submission started and not awaited.
SetCodeNotAwaited ==
    /\ pc = "setcode"
    /\ IF ~flags.abiOnly
       THEN history' = Append(history, event("setcode", wasm))
       ELSE UNCHANGED history
    /\ pc' = "setabi"
    /\ UNCHANGED <<log, outcome>>
    /\ stepFrame

\* Lines 330-347: network.transact(setcode) is called and awaited.
SetCode ==
    /\ pc = "setcode"
    /\ IF ~flags.abiOnly
       THEN /\ history' = Append(history, event("setcode", wasm))
            /\ pc' = "setcode_wait"
       ELSE pc' = "setabi" /\ UNCHANGED history
    /\ UNCHANGED <<log, outcome>>
    /\ stepFrame

\* The catch block that lets the error leave run().
SetCodeSettleRethrow ==
    /\ pc = "setcode_wait"
    /\ \E ok \in BOOLEAN, e \in ErrorSamples :
          IF ok
          THEN /\ history' = Append(history, event("setcode_ok", ""))
               /\ pc' = "setabi"
               /\ UNCHANGED <<log, outcome>>
          ELSE /\ history' = Append(history, event("setcode_failed", ""))
               /\ log' = Append(log, parseDetailsError(e))
               /\ throw("SubmissionFailed")
    /\ stepFrame

\* Lines 349-353: the transaction resolves, or rejects and the error is reported.
SetCodeSettle ==
    /\ pc = "setcode_wait"
    /\ \E ok \in BOOLEAN, e \in ErrorSamples :
          IF ok
          THEN /\ history' = Append(history, event("setcode_ok", ""))
               /\ UNCHANGED log
          ELSE /\ history' = Append(history, event("setcode_failed", ""))
               /\ log' = Append(log, parseDetailsError(e))
    /\ pc' = "setabi"
    /\ UNCHANGED outcome
    /\ stepFrame

\* Lines 357-372: network.transact(setabi) is called and awaited.
\* The schema submission that code-only mode suppresses only when schema-only
\* mode is off.
SetAbiUnlessCodeOnlyAlone ==
    /\ pc = "setabi"
    /\ IF ~flags.wasmOnly \/ flags.abiOnly
       THEN /\ history' = Append(history, event("setabi", abi))
            /\ pc' = "setabi_wait"
       ELSE pc' = "enable" /\ UNCHANGED history
    /\ UNCHANGED <<log, outcome>>
    /\ stepFrame

SetAbi ==
    /\ pc = "setabi"
    /\ IF ~flags.wasmOnly
       THEN /\ history' = Append(history, event("setabi", abi))
            /\ pc' = "setabi_wait"
       ELSE pc' = "enable" /\ UNCHANGED history
    /\ UNCHANGED <<log, outcome>>
    /\ stepFrame

\* Lines 373-377.
SetAbiSettle ==
    /\ pc = "setabi_wait"
    /\ \E ok \in BOOLEAN, e \in ErrorSamples :
          IF ok
          THEN /\ history' = Append(history, event("setabi_ok", ""))
               /\ UNCHANGED log
          ELSE /\ history' = Append(history, event("setabi_failed", ""))
               /\ log' = Append(log, parseDetailsError(e))
    /\ pc' = "enable"
    /\ UNCHANGED outcome
    /\ stepFrame

\* The enable step that does not look at the disable flag.
EnableAlways ==
    /\ pc = "enable"
    /\ history' = Append(history, event("enable", account))
    /\ pc' = "enable_wait"
    /\ UNCHANGED <<log, outcome>>
    /\ stepFrame

\* Lines 381-382: ContractEnableInline.run is called and awaited.
Enable ==
    /\ pc = "enable"
    /\ IF ~flags.disableInline
       THEN /\ history' = Append(history, event("enable", account))
            /\ pc' = "enable_wait"
       ELSE pc' = "cleanup" /\ UNCHANGED history
    /\ UNCHANGED <<log, outcome>>
    /\ stepFrame

\* Line 382: the command resolves, or rejects, and nothing in run() catches that.
EnableSettle ==
    /\ pc = "enable_wait"
    /\ \E ok \in BOOLEAN :
          IF ok
          THEN /\ history' = Append(history, event("enable_ok", ""))
               /\ pc' = "cleanup"
               /\ UNCHANGED outcome
          ELSE /\ history' = Append(history, event("enable_failed", ""))
               /\ throw("EnableFailed")
    /\ UNCHANGED log
    /\ stepFrame

\* Lines 386-390.
Cleanup ==
    /\ pc = "cleanup"
    /\ IF folderToCleanup # ""
       THEN /\ disk' = [disk EXCEPT ![folderToCleanup] = noDir]
            /\ history' = Append(history, event("rmSync", folderToCleanup))
       ELSE UNCHANGED <<disk, history>>
    /\ pc' = "done"
    /\ outcome' = "ok"
    /\ UNCHANGED <<inputs, dir, tmpFolder, fetch, resolved, wasm, abi, abiFields,
                   existingABI, tablesToCheck, probe, warning, confirmed, canDeploy,
                   folderToCleanup, log>>

Next ==
    \/ Start
    \/ Confirm
    \/ Branch
    \/ ResolveStart
    \/ Mkdtemp
    \/ StartDownloads
    \/ \E ext \in Exts : FetchResponse(ext)
    \/ \E ext \in Exts : FetchRequestError(ext)
    \/ \E ext \in Exts : FetchTimeout(ext)
    \/ \E ext \in Exts : FetchFinish(ext)
    \/ \E ext \in Exts : FetchWriteError(ext)
    \/ Join
    \/ Scan
    \/ ReadFiles
    \/ GetAbi
    \/ Compare
    \/ CheckRemoved
    \/ CheckUpdated
    \/ \E i \in DOMAIN probe.data : ProbeSettle(i)
    \/ ProbeJoin
    \/ Warn
    \/ Serialize
    \/ Gate
    \/ SetCode
    \/ SetCodeSettle
    \/ SetAbi
    \/ SetAbiSettle
    \/ Enable
    \/ EnableSettle
    \/ Cleanup

Spec == Init /\ [][Next]_vars

(***************************************************************************)
(* The resolver alone: the directory scan on every listing of at most      *)
(* MaxFiles entries, entered as run() enters it for a local source with a  *)
(* pre-seeded account.                                                     *)
(***************************************************************************)
InitResolve ==
    /\ pc = "scan"
    /\ source = LocalSource
    /\ contractConfig = [NETWORK |-> "", ACCOUNT |-> "acct", SOURCE |-> ""]
    /\ flags = [clear |-> FALSE, abiOnly |-> FALSE, wasmOnly |-> FALSE,
                disableInline |-> FALSE]
    /\ \E listing \in Listings(MaxFiles) :
          disk = [d \in Dirs |->
                    IF d = LocalSource
                    THEN [exists |-> TRUE, files |-> filesOf(listing)]
                    ELSE noDir]
    /\ dir = LocalSource
    /\ tmpFolder = ""
    /\ fetch = [e \in Exts |-> "idle"]
    /\ resolved = <<>>
    /\ wasm = ""
    /\ abi = <<>>
    /\ abiFields = <<>>
    /\ existingABI = <<>>
    /\ tablesToCheck = noTables
    /\ probe = noProbe
    /\ warning = <<>>
    /\ confirmed = TRUE
    /\ canDeploy = TRUE
    /\ folderToCleanup = ""
    /\ history = <<event("resolve", LocalSource)>>
    /\ log = <<>>
    /\ outcome = ""

SpecResolve == InitResolve /\ [][Scan]_vars

(***************************************************************************)
(* The differ alone: compareTables on every deployed schema of at most     *)
(* MaxTables tables and MaxStructs records, against itself and against     *)
(* each candidate of DiffCandidates, entered as run() enters it.           *)
(***************************************************************************)
LocalArtifacts == << <<"c", ".", "w", "a", "s", "m">>, <<"c", ".", "a", "b", "i">> >>

InitDiff ==
    /\ pc = "compare"
    /\ source = LocalSource
    /\ contractConfig = [NETWORK |-> "", ACCOUNT |-> "acct", SOURCE |-> ""]
    /\ flags = [clear |-> FALSE, abiOnly |-> FALSE, wasmOnly |-> FALSE,
                disableInline |-> FALSE]
    /\ disk = [d \in Dirs |->
                 IF d = LocalSource
                 THEN [exists |-> TRUE, files |-> filesOf(LocalArtifacts)]
                 ELSE noDir]
    /\ dir = LocalSource
    /\ tmpFolder = ""
    /\ fetch = [e \in Exts |-> "idle"]
    /\ resolved = <<getDeployableFilesFromDir(LocalSource, LocalArtifacts, "")>>
    /\ wasm = "complete"
    /\ abi = <<>>
    /\ \E existing \in Schemas :
          /\ existingABI = <<existing>>
          /\ \E candidate \in {existing} \cup DiffCandidates : abiFields = <<candidate>>
    /\ tablesToCheck = noTables
    /\ probe = noProbe
    /\ warning = <<>>
    /\ confirmed = TRUE
    /\ canDeploy = TRUE
    /\ folderToCleanup = ""
    /\ history = <<event("resolve", LocalSource), event("get_abi", "acct")>>
    /\ log = <<>>
    /\ outcome = ""

SpecDiff == InitDiff /\ [][Compare]_vars

(***************************************************************************)
(* Properties.                                                             *)
(***************************************************************************)
\* The places of an operation in the history.
at(op) == {i \in DOMAIN history : history[i].op = op}
issued(op) == at(op) # {}
terminated == pc \in {"done", "failed"}
Submissions == {"setcode", "setabi", "enable"}

\* C1: whenever a run that made a staging directory has ended, normally or by an
\* error thrown out of run(), the staging directory no longer exists.
CleanupInvariant ==
    (terminated /\ issued("mkdtemp")) => ~disk[TmpDir].exists

\* C2: in deploy mode, once a risk report names a table with rows, every code,
\* schema or enable operation issued comes after a yes at the risk prompt; no
\* answer at all is not a yes.
RiskGate ==
    (~flags.clear /\ warning # <<>>) =>
        \A i \in DOMAIN history :
            history[i].op \in Submissions =>
                \E k \in 1..(i - 1) :
                    history[k].op = "prompt_risk" /\ history[k].arg = "yes"

\* A run with a pre-seeded account (no first prompt) found rows, the risk prompt
\* was left unanswered, and the run ended with nothing submitted.
RiskGateWitness ==
    /\ pc = "done"
    /\ contractConfig.ACCOUNT # ""
    /\ ~flags.clear
    /\ warning # <<>>
    /\ \E k \in at("prompt_risk") : history[k].arg = "unanswered"
    /\ \A i \in DOMAIN history : history[i].op \notin Submissions

\* C3: the schema submission is started only after every code submission of the
\* run was started and has settled, by success or by failure.
SubmissionOrdering ==
    \A i \in at("setabi") :
        \A j \in at("setcode") :
            /\ j < i
            /\ \E k \in (j + 1)..(i - 1) :
                  history[k].op \in {"setcode_ok", "setcode_failed"}

\* The code submission failed and the schema submission was started after it.
SubmissionOrderingWitness ==
    /\ issued("setcode_failed")
    /\ issued("setabi_failed")

GatedOps == {"resolve", "mkdtemp", "fetch", "get_abi", "probe", "compare",
             "prompt_risk", "setcode", "setabi", "enable"}
InitialConfirmationGate ==
    contractConfig.ACCOUNT = "" =>
        /\ \A i \in DOMAIN history :
              history[i].op \in GatedOps =>
                  \E k \in 1..(i - 1) :
                      history[k].op = "prompt_initial" /\ history[k].arg = "yes"
        /\ (\E k \in at("prompt_initial") : history[k].arg # "yes") =>
              /\ \A i \in DOMAIN history : history[i].op \notin GatedOps
              /\ ~disk[TmpDir].exists
              /\ tmpFolder = ""
              /\ resolved = <<>>
              /\ pc \in {"branch", "done"}
              /\ pc = "done" => outcome = "ok"

\* The operator declined the first prompt of a run from a remote source and the
\* run has returned.
InitialConfirmationWitness ==
    /\ pc = "done"
    /\ contractConfig.ACCOUNT = ""
    /\ source = GithubSource
    /\ \E k \in at("prompt_initial") : history[k].arg = "no"

\* C6: with a pre-seeded network other than the connected one, the run shows no
\* prompt, resolves nothing, reads and submits nothing: its only step is to fail
\* with the network mismatch.
networkMismatch == contractConfig.NETWORK # "" /\ contractConfig.NETWORK # Chain
NetworkMismatchFails ==
    networkMismatch =>
        /\ history = <<>>
        /\ pc \in {"start", "failed"}
        /\ pc = "failed" => outcome = "NetworkMismatch"
        /\ ~disk[TmpDir].exists
        /\ resolved = <<>>

\* A run without a pre-seeded account, which would have prompted, failed on the
\* network mismatch.
NetworkMismatchWitness ==
    /\ networkMismatch
    /\ contractConfig.ACCOUNT = ""
    /\ pc = "failed"
    /\ outcome = "NetworkMismatch"

\* The extension of a file name: what follows its last dot, in lower case (<<>>
\* when the name has no dot).
extensionOf(name) ==
    LET dots == {i \in DOMAIN name : name[i] = "."}
    IN  IF dots = {} THEN <<>>
        ELSE LET last == CHOOSE i \in dots : \A j \in dots : j <= i
             IN  [k \in 1..(Len(name) - last) |-> toLowerCase(name[last + k])]
listing == namesOf(disk[dir].files)
bytecodeFiles == {i \in DOMAIN listing : extensionOf(listing[i]) = WASM}
schemaFiles == {i \in DOMAIN listing : extensionOf(listing[i]) = ABI}
failedWith(error) == resolved[1].kind = "error" /\ resolved[1].error = error

\* C7: the scan returns an artifact set exactly when the listing holds one file
\* of extension wasm and one of extension abi, and the paths returned are those
\* two files of the scanned directory.
ResolverSuccess ==
    resolved # <<>> =>
        /\ resolved[1].kind = "ok" <=>
              (Cardinality(bytecodeFiles) = 1 /\ Cardinality(schemaFiles) = 1)
        /\ resolved[1].kind = "ok" =>
              /\ \E i \in bytecodeFiles : resolved[1].wasmPath = <<dir, listing[i]>>
              /\ \E i \in schemaFiles : resolved[1].abiPath = <<dir, listing[i]>>
              /\ resolved[1].tmpFolder = tmpFolder

\* A listing of three entries, one of them neither artifact, was resolved.
ResolverSuccessWitness ==
    /\ resolved # <<>>
    /\ resolved[1].kind = "ok"
    /\ Len(listing) = 3

\* C8 as stated: ArtifactNotFound whenever either kind has no file, and
\* AmbiguousArtifacts whenever either kind has several.
ResolverErrorKindsAsStated ==
    resolved # <<>> =>
        /\ (Cardinality(bytecodeFiles) = 0 \/ Cardinality(schemaFiles) = 0) =>
              failedWith("ArtifactNotFound")
        /\ (Cardinality(bytecodeFiles) > 1 \/ Cardinality(schemaFiles) > 1) =>
              failedWith("AmbiguousArtifacts")

\* C8, amended: ArtifactNotFound exactly when either kind has no file;
\* AmbiguousArtifacts exactly when both kinds have a file and one has several.
ResolverErrorKinds ==
    resolved # <<>> =>
        /\ (Cardinality(bytecodeFiles) = 0 \/ Cardinality(schemaFiles) = 0) <=>
              failedWith("ArtifactNotFound")
        /\ (/\ Cardinality(bytecodeFiles) >= 1
            /\ Cardinality(schemaFiles) >= 1
            /\ (Cardinality(bytecodeFiles) > 1 \/ Cardinality(schemaFiles) > 1)) <=>
              failedWith("AmbiguousArtifacts")

\* A listing with no bytecode file and two schema files failed as not found.
ResolverErrorKindsWitness ==
    /\ resolved # <<>>
    /\ Cardinality(bytecodeFiles) = 0
    /\ Cardinality(schemaFiles) = 2
    /\ failedWith("ArtifactNotFound")

\* C9: for a remote source, once a fetch has failed the scan fails with
\* ArtifactNotFound and nothing is submitted.
RemoteNeedsBothFetches ==
    (isGithub(source) /\ resolved # <<>> /\ \E e \in Exts : fetch[e] = "false") =>
        /\ failedWith("ArtifactNotFound")
        /\ \A i \in DOMAIN history : history[i].op \notin Submissions

\* C10: a schema compared to itself gives no removed and no updated table.
DiffSelfEmpty ==
    (pc = "check_removed" /\ abiFields = existingABI) =>
        (tablesToCheck.removed = <<>> /\ tablesToCheck.updated = <<>>)

\* A schema of two tables, one naming a record type the schema does not
\* describe, was compared to itself.
DiffSelfWitness ==
    /\ pc = "check_removed"
    /\ abiFields = existingABI
    /\ Len(existingABI[1].tables) = 2
    /\ \E i \in DOMAIN existingABI[1].tables :
          extractStruct(existingABI[1].structs, existingABI[1].tables[i].type) = <<>>

\* The names of a sequence of tables, in order.
tableNames(tables) == [i \in DOMAIN tables |-> tables[i].name]
elements(seq) == {seq[i] : i \in DOMAIN seq}
diffed == pc = "check_removed"
hasTableNamed(schema, name) == \E i \in DOMAIN schema.tables : schema.tables[i].name = name

\* C11: removed lists, in order, the tables of the existing schema that have no
\* table of the same name in the candidate schema, and a name that only the
\* candidate has is in neither removed nor updated.
DiffRemovedExact ==
    diffed =>
        LET existing == existingABI[1]
            candidate == abiFields[1]
        IN  /\ tablesToCheck.removed =
                  tableNames(SelectSeq(existing.tables,
                                       LAMBDA t : ~hasTableNamed(candidate, t.name)))
            /\ \A n \in elements(tableNames(candidate.tables)) :
                  ~hasTableNamed(existing, n) =>
                      /\ n \notin elements(tablesToCheck.removed)
                      /\ n \notin elements(tablesToCheck.updated)

\* The candidate drops a table of the existing schema and brings one the
\* existing schema does not have.
DiffRemovedWitness ==
    /\ diffed
    /\ tablesToCheck.removed # <<>>
    /\ \E n \in elements(tableNames(abiFields[1].tables)) :
          ~hasTableNamed(existingABI[1], n)

\* The candidate's table of that name (the first, as findIndex finds it).
tableNamed(schema, name) ==
    Head(SelectSeq(schema.tables, LAMBDA t : t.name = name))

\* C12: updated lists, in order, the tables present in both schemas whose record
\* in the existing schema (by the existing table's type) differs from the record
\* in the candidate schema (by the candidate table's type), a missing record
\* being an absent one.
DiffUpdatedByOwnTypes ==
    diffed =>
        LET existing == existingABI[1]
            candidate == abiFields[1]
            changed(t) ==
                /\ hasTableNamed(candidate, t.name)
                /\ extractStruct(existing.structs, t.type) #
                      extractStruct(candidate.structs, tableNamed(candidate, t.name).type)
        IN  tablesToCheck.updated = tableNames(SelectSeq(existing.tables, changed))

(***************************************************************************)
(* The risk check alone: the diff and the probes of run() on every         *)
(* deployed table list of at most MaxTables tables (names may repeat),     *)
(* against candidates that drop or change them.                            *)
(***************************************************************************)
SchemaEmpty == [tables |-> <<>>, structs |-> <<>>]
RiskCandidates == {SchemaEmpty, SchemaDropT1, SchemaNarrowR1}

InitRisk ==
    /\ pc = "compare"
    /\ source = LocalSource
    /\ contractConfig = [NETWORK |-> "", ACCOUNT |-> "acct", SOURCE |-> ""]
    /\ flags = [clear |-> FALSE, abiOnly |-> FALSE, wasmOnly |-> FALSE,
                disableInline |-> FALSE]
    /\ disk = [d \in Dirs |->
                 IF d = LocalSource
                 THEN [exists |-> TRUE, files |-> filesOf(LocalArtifacts)]
                 ELSE noDir]
    /\ dir = LocalSource
    /\ tmpFolder = ""
    /\ fetch = [e \in Exts |-> "idle"]
    /\ resolved = <<getDeployableFilesFromDir(LocalSource, LocalArtifacts, "")>>
    /\ wasm = "complete"
    /\ abi = <<>>
    /\ \E tables \in SeqsUpTo(Tables, MaxTables) :
          existingABI = <<[tables |-> tables, structs |-> SchemaLive.structs]>>
    /\ \E candidate \in RiskCandidates : abiFields = <<candidate>>
    /\ tablesToCheck = noTables
    /\ probe = noProbe
    /\ warning = <<>>
    /\ confirmed = TRUE
    /\ canDeploy = TRUE
    /\ folderToCleanup = ""
    /\ history = <<event("resolve", LocalSource), event("get_abi", "acct")>>
    /\ log = <<>>
    /\ outcome = ""

NextRisk ==
    \/ Compare
    \/ CheckRemoved
    \/ CheckUpdated
    \/ \E i \in DOMAIN probe.data : ProbeSettle(i)
    \/ ProbeJoin

SpecRisk == InitRisk /\ [][NextRisk]_vars

\* C13: checkDataExists returns whatever each probe did, never throwing, and a
\* table name is in what it returns exactly when a probe for that name came back
\* with rows; a probe that rejected or came back empty adds nothing.
RiskReportExact ==
    /\ outcome = ""
    /\ pc # "failed"
    /\ (pc = "probing" /\ \A i \in DOMAIN probe.data : probe.data[i].done) =>
          ENABLED ProbeJoin
    /\ probe.returned # <<>> =>
          \A t \in TableNames :
              t \in elements(probe.returned[1]) <=>
                  \E i \in DOMAIN probe.tables :
                      probe.tables[i] = t /\ probe.data[i].result = "rows"

\* A call for two tables returned: one probe had rows, the other rejected.
RiskReportWitness ==
    /\ probe.returned # <<>>
    /\ Len(probe.tables) = 2
    /\ \E i, j \in DOMAIN probe.data :
          probe.data[i].result = "rows" /\ probe.data[j].result = "error"

InitHint ==
    /\ pc = "catch"
    /\ source = LocalSource
    /\ contractConfig = [NETWORK |-> "", ACCOUNT |-> "acct", SOURCE |-> ""]
    /\ flags = [clear |-> FALSE, abiOnly |-> FALSE, wasmOnly |-> FALSE,
                disableInline |-> FALSE]
    /\ disk = [d \in Dirs |-> noDir]
    /\ InitLocals

Report ==
    /\ pc = "catch"
    /\ \E errorMessage \in Messages :
          log' = Append(log, parseDetailsError([type |-> "object", details |-> <<>>,
                                                message |-> errorMessage]))
    /\ pc' = "reported"
    /\ UNCHANGED <<inputs, disk, dir, tmpFolder, fetch, resolved, wasm, abi, abiFields,
                   existingABI, tablesToCheck, probe, warning, confirmed, canDeploy,
                   folderToCleanup, history, outcome>>

SpecHint == InitHint /\ [][Report]_vars

lower(text) == [i \in DOMAIN text |-> toLowerCase(text[i])]
contains(message, text) ==
    LET m == lower(message)
        t == lower(text)
    IN  \E a \in 1..(Len(m) - Len(t) + 1) : SubSeq(m, a, a + Len(t) - 1) = t
matching(message) ==
    {i \in DOMAIN ERROR_HINTS :
        \E k \in DOMAIN ERROR_HINTS[i].pattern : contains(message, ERROR_HINTS[i].pattern[k])}
first(S) == CHOOSE i \in S : \A j \in S : i <= j

\* C15: for every message, getHintForError answers with the hint of the first
\* entry of ERROR_HINTS one of whose alternatives occurs in the message, case
\* ignored, and with no hint when no entry has one; the call always returns.
HintFirstMatch ==
    /\ pc = "catch" => ENABLED Report
    /\ \A n \in DOMAIN log :
          LET M == matching(log[n].message)
          IN  log[n].hint = IF M = {} THEN <<>> ELSE <<ERROR_HINTS[first(M)].hint>>

\* A message matched by two entries was reported with the hint of the earlier.
HintFirstMatchWitness ==
    /\ pc = "reported"
    /\ \E n \in DOMAIN log :
          /\ Cardinality(matching(log[n].message)) >= 2
          /\ log[n].hint = <<ERROR_HINTS[first(matching(log[n].message))].hint>>

probed == LET probes == SelectSeq(history, LAMBDA e : e.op = "probe")
          IN  [i \in DOMAIN probes |-> probes[i].arg]

\* C17: every table probe comes after the differ has returned; the names probed
\* are, in order, those of the differ's removed list and then those of its
\* updated list, so none is probed for a category the differ left empty; and
\* nothing is probed while there is no deployed schema.
ProbesFollowDiff ==
    /\ \A i \in at("probe") : \E k \in 1..(i - 1) : history[k].op = "compare"
    /\ existingABI = <<>> => ~issued("probe")
    /\ probed \in {<<>>, tablesToCheck.removed,
                   tablesToCheck.removed \o tablesToCheck.updated}
    /\ probe.category = "removed" => tablesToCheck.removed # <<>>
    /\ probe.category = "updated" => tablesToCheck.updated # <<>>
    /\ probe.category # "" => probe.tables = tablesToCheck[probe.category]

\* Both categories were non-empty and both were probed.
ProbesFollowDiffWitness ==
    /\ tablesToCheck.removed # <<>>
    /\ tablesToCheck.updated # <<>>
    /\ probed = tablesToCheck.removed \o tablesToCheck.updated
    /\ pc = "warn"

\* C18: once the fetch of the deployed schema has failed or has answered without
\* a schema, the run is not aborted by it; the differ, the probes and the risk
\* prompt are skipped; and a run that ends has attempted every submission its
\* mode flags allow and has passed the cleanup step.
SchemaFetchDegrades ==
    (issued("get_abi") /\ existingABI = <<>>) =>
        /\ outcome # "GetAbiFailed"
        /\ ~issued("compare")
        /\ ~issued("probe")
        /\ ~issued("prompt_risk")
        /\ pc = "done" =>
              /\ ~flags.abiOnly => issued("setcode")
              /\ ~flags.wasmOnly => issued("setabi")

\* The steps of a deploy that clear mode leaves out.
DeploySteps == {"resolve", "mkdtemp", "fetch", "get_abi", "compare", "probe", "prompt_risk"}
pastSubmissions == pc \in {"enable", "enable_wait", "cleanup", "done"} \/ outcome = "EnableFailed"
nothingResolved ==
    /\ \A i \in DOMAIN history : history[i].op \notin DeploySteps
    /\ tmpFolder = ""
    /\ ~disk[TmpDir].exists

\* C19 as stated: in clear mode, once the first confirmation is passed, nothing
\* is resolved, fetched, diffed, probed or asked, no staging directory is made,
\* and the code submission is issued with empty bytecode and the schema
\* submission with an empty schema.
ClearModeAsStated ==
    flags.clear =>
        /\ nothingResolved
        /\ (confirmed /\ pastSubmissions) =>
              /\ \E i \in at("setcode") : history[i].arg = ""
              /\ \E i \in at("setabi") : history[i].arg = <<>>

\* C19: in clear mode, once the first confirmation is passed, nothing is
\* resolved, fetched, diffed, probed or asked, no staging directory is made, and
\* each of the two submissions that its mode flag does not suppress is issued,
\* the code submission with empty bytecode and the schema submission with an
\* empty schema; no submission carries anything else.
ClearMode ==
    flags.clear =>
        /\ nothingResolved
        /\ \A i \in at("setcode") : history[i].arg = ""
        /\ \A i \in at("setabi") : history[i].arg = <<>>
        /\ (confirmed /\ pastSubmissions) =>
              /\ ~flags.abiOnly => issued("setcode")
              /\ ~flags.wasmOnly => issued("setabi")
              /\ flags.abiOnly => ~issued("setcode")
              /\ flags.wasmOnly => ~issued("setabi")

\* A confirmed clear run ended after both submissions, each with its empty
\* payload.
ClearModeWitness ==
    /\ flags.clear /\ ~flags.abiOnly /\ ~flags.wasmOnly
    /\ pc = "done"
    /\ \E i \in at("setcode") : history[i].arg = ""
    /\ \E i \in at("setabi") : history[i].arg = <<>>
    /\ nothingResolved

settled(op) == {op \o "_ok", op \o "_failed"}
declined ==
    \E k \in at("prompt_initial") \cup at("prompt_risk") : history[k].arg # "yes"

\* C20: the enable command is never invoked when it is disabled nor in a run
\* declined at either prompt, and at most once otherwise; when it is invoked,
\* every code and schema submission before it has already resolved or rejected
\* and none is issued after it, so it never runs beside one; and a run that
\* went through the submission stage with enable not disabled has invoked it
\* exactly once by the time the schema step is behind it.
EnableStep ==
    /\ Cardinality(at("enable")) <= 1
    /\ flags.disableInline => ~issued("enable")
    /\ declined => ~issued("enable")
    /\ pc \in {"setcode", "setcode_wait", "setabi", "setabi_wait"} => ~issued("enable")
    /\ \A i \in at("enable") :
          /\ \A op \in {"setcode", "setabi"} :
                \A j \in at(op) :
                    /\ j < i
                    /\ \E s \in (j + 1)..(i - 1) : history[s].op \in settled(op)
          /\ \A j \in (i + 1)..Len(history) :
                history[j].op \in {"enable_ok", "enable_failed", "rmSync"}
    /\ (/\ confirmed /\ canDeploy /\ ~flags.disableInline
        /\ pc \in {"enable_wait", "cleanup", "done"} \/ outcome = "EnableFailed") =>
          Cardinality(at("enable")) = 1

\* A deploy whose code submission was rejected went on to the schema submission
\* and then invoked enable once; the run has ended.
EnableStepWitness ==
    /\ pc = "done"
    /\ ~flags.disableInline
    /\ issued("setcode_failed")
    /\ issued("setabi_ok")
    /\ Cardinality(at("enable")) = 1
    /\ issued("enable_ok")

fetchSettled(e) == fetch[e] \in {"true", "false"}
fileOf(e) == SelectSeq(disk[TmpDir].files, LAMBDA f : f.name = downloadName(e))

\* C21: for a remote source both downloads are started before either settles;
\* whatever one download has done, the other can still take each of its own
\* steps; a step of one changes neither the state nor the file of the other;
\* and the staging directory is scanned only after both have settled.
DownloadJoin ==
    /\ [](/\ \A e \in Exts : fetch[e] # "idle" =>
                /\ \A o \in Exts : fetch[o] # "idle"
                /\ \A o \in Exts : \E i \in at("fetch") : history[i].arg = o
          /\ \A e \in Exts :
                /\ fetch[e] = "pending" =>
                      /\ ENABLED FetchResponse(e)
                      /\ ENABLED FetchRequestError(e)
                      /\ ENABLED FetchTimeout(e)
                /\ fetch[e] = "streaming" =>
                      /\ ENABLED FetchFinish(e)
                      /\ ENABLED FetchWriteError(e)
                      /\ ENABLED FetchTimeout(e)
          /\ (pc = "scan" \/ resolved # <<>>) /\ isGithub(source) =>
                \A e \in Exts : fetchSettled(e))
    /\ [][\A e \in Exts :
             fetch'[e] # fetch[e] /\ fetch[e] # "idle" =>
                 \A o \in Exts \ {e} : fetch'[o] = fetch[o] /\ fileOf(o)' = fileOf(o)]_vars

\* The bytecode download timed out while the schema download went on and
\* completed; the scan is about to start.
DownloadJoinWitness ==
    /\ pc = "scan"
    /\ isGithub(source)
    /\ fetch["wasm"] = "false"
    /\ fetch["abi"] = "true"
    /\ \E i \in DOMAIN fileOf("abi") : fileOf("abi")[i].content = "complete"

\* C22: whatever list of names checkDataExists was called with, a list the
\* differ made from a deployed schema that declares a table name twice included,
\* what it returns holds table names only, no null, and no name twice.
RiskReportWellFormed ==
    probe.returned # <<>> =>
        LET report == probe.returned[1]
        IN  /\ \A i \in DOMAIN report : report[i] \in TableNames
            /\ \A i, j \in DOMAIN report : report[i] = report[j] => i = j

\* C23: what checkDataExists returns is the list it was given, in that order,
\* cut down to the tables whose probe came back with rows, in whatever order
\* the probes completed; any probe not yet settled may be the next to settle,
\* and the result is produced only once every probe has settled.
ProbeOrderIndependence ==
    /\ pc = "probing" =>
          \A i \in DOMAIN probe.data : ~probe.data[i].done => ENABLED ProbeSettle(i)
    /\ ENABLED ProbeJoin => \A i \in DOMAIN probe.data : probe.data[i].done
    /\ probe.returned # <<>> =>
          LET places == SelectSeq([i \in DOMAIN probe.tables |-> i],
                                  LAMBDA i : probe.data[i].result = "rows")
          IN  /\ \A i \in DOMAIN probe.data : probe.data[i].done
              /\ probe.returned[1] = [k \in DOMAIN places |-> probe.tables[places[k]]]

\* The probe of the second table completed before the probe of the first, both
\* with rows, and the names came back in the order of the list.
ProbeOrderWitness ==
    /\ probe.returned # <<>>
    /\ probe.tables = <<"T1", "T2">>
    /\ probe.data[2].order < probe.data[1].order
    /\ probe.returned[1] = <<"T1", "T2">>

====
